---- MODULE Spec2Model ----
(***************************************************************************)
(* Model of the openrelik-server fragment: the LLM provider registry       *)
(* (plugins/llm/manager.py), the user and file data-access functions       *)
(* (datastores/sql/crud/user.py, file.py) and the Workflow/Task relations  *)
(* (datastores/sql/models/workflow.py).                                    *)
(*                                                                         *)
(* Every operation is a pure operator from the store before the call to    *)
(* the store after it plus the call's outcome; an action applies one       *)
(* operator to inputs drawn from small sets and records                    *)
(*   pre  : the store before the call,                                     *)
(*   call : the function called and its arguments,                         *)
(*   ret  : what the call returned or raised.                              *)
(***************************************************************************)
EXTENDS Integers, Sequences, FiniteSets, TLC

VARIABLES registry, db, procs, pre, call, ret

vars == <<registry, db, procs, pre, call, ret>>

\* Python's None where a string or nothing is expected.
None == "None"

\* Python's None where a row object is expected (no row has id 0).
NoRow == [id |-> 0]

NoCall == [op |-> "init"]

NoRet == [exc |-> "none", value |-> None]

Return(v) == [exc |-> "none", value |-> v]

Raise(e, v) == [exc |-> e, value |-> v]

(***************************************************************************)
(* Strings are sequences of characters, so that str.lower() does work.     *)
(***************************************************************************)
Chars == {"a", "A"}

MaxNameLen == 2

\* Identities of the provider classes that get registered.
ClassIds == {"P", "Q"}

Names == UNION {[1..n -> Chars] : n \in 1..MaxNameLen}

lower_char(c) == IF c = "A" THEN "a" ELSE c

lower(s) == [i \in 1..Len(s) |-> lower_char(s[i])]

\* A provider class: its identity and its NAME attribute.
ProviderClasses == [id : ClassIds, NAME : Names]

(***************************************************************************)
(* LLMManager.  _class_registry is a Python dict: insertion-ordered pairs  *)
(* with distinct keys, here a sequence of [name, cls].                     *)
(***************************************************************************)
EmptyRegistry == <<>>

dict_contains(d, k) == \E i \in 1..Len(d) : d[i].name = k

dict_getitem(d, k) == d[CHOOSE i \in 1..Len(d) : d[i].name = k].cls

dict_setitem(d, k, v) ==
    IF dict_contains(d, k)
    THEN [i \in 1..Len(d) |-> IF d[i].name = k THEN [name |-> k, cls |-> v] ELSE d[i]]
    ELSE Append(d, [name |-> k, cls |-> v])

get_providers(reg) == [i \in 1..Len(reg) |-> <<reg[i].name, reg[i].cls>>]

get_provider_casesensitive(reg, provider_name) ==
    IF dict_contains(reg, provider_name)
    THEN Return(dict_getitem(reg, provider_name))
    ELSE Raise("KeyError", provider_name)

get_provider(reg, provider_name) ==
    IF dict_contains(reg, lower(provider_name))
    THEN Return(dict_getitem(reg, lower(provider_name)))
    ELSE Raise("KeyError", lower(provider_name))

register_provider_casesensitive(reg, provider_class) ==
    LET provider_name == provider_class.NAME
    IN IF dict_contains(reg, provider_name)
       THEN [registry |-> reg, ret |-> Raise("ValueError", provider_class.NAME)]
       ELSE [registry |-> dict_setitem(reg, provider_name, provider_class),
             ret |-> Return(None)]

register_provider(reg, provider_class) ==
    LET provider_name == lower(provider_class.NAME)
    IN IF dict_contains(reg, provider_name)
       THEN [registry |-> reg, ret |-> Raise("ValueError", provider_class.NAME)]
       ELSE [registry |-> dict_setitem(reg, provider_name, provider_class),
             ret |-> Return(None)]

clear_registration_keep(reg) == reg

clear_registration(reg) == EmptyRegistry

(***************************************************************************)
(* The relational store: one set of rows per table, and per table the last *)
(* identifier its autoincrement primary key handed out.                    *)
(***************************************************************************)
EmptySeq == [User |-> 0, Group |-> 0, UserApiKey |-> 0, UserRole |-> 0,
             File |-> 0, Workflow |-> 0, Task |-> 0]

EmptyDb == [User |-> {}, Group |-> {}, user_group |-> {}, UserApiKey |-> {},
            UserRole |-> {}, Folder |-> {}, File |-> {}, Workflow |-> {},
            Task |-> {}, file_workflow |-> {}, disk |-> {},
            group_name_unique |-> FALSE, seq |-> EmptySeq]

NoProcs == <<>>

InitLLM ==
    /\ registry = EmptyRegistry
    /\ db = EmptyDb
    /\ procs = NoProcs
    /\ pre = EmptyRegistry
    /\ call = NoCall
    /\ ret = NoRet

RegisterProvider ==
    \E provider_class \in ProviderClasses :
        LET r == register_provider(registry, provider_class)
        IN /\ registry' = r.registry
           /\ pre' = registry
           /\ call' = [op |-> "register_provider", provider_class |-> provider_class]
           /\ ret' = r.ret
           /\ UNCHANGED <<db, procs>>

GetProvider ==
    \E provider_name \in Names :
        /\ pre' = registry
        /\ call' = [op |-> "get_provider", provider_name |-> provider_name]
        /\ ret' = get_provider(registry, provider_name)
        /\ UNCHANGED <<registry, db, procs>>

GetProviders ==
    /\ pre' = registry
    /\ call' = [op |-> "get_providers"]
    /\ ret' = Return(get_providers(registry))
    /\ UNCHANGED <<registry, db, procs>>

ClearRegistration ==
    /\ registry' = clear_registration(registry)
    /\ pre' = registry
    /\ call' = [op |-> "clear_registration"]
    /\ ret' = Return(None)
    /\ UNCHANGED <<db, procs>>

NextLLM ==
    \/ RegisterProvider
    \/ GetProvider
    \/ GetProviders
    \/ ClearRegistration

SpecLLM == InitLLM /\ [][NextLLM]_vars

\* C1: register_provider(P), when the lower-cased NAME of P is already a key
\* of the registry (P's NAME may differ from the registered one by letter
\* case), raises ValueError and leaves the registry exactly as it was.
C1_DuplicateRejected ==
    (call.op = "register_provider"
        /\ dict_contains(pre, lower(call.provider_class.NAME)))
    => /\ ret.exc = "ValueError"
       /\ registry = pre

C1_Witness_CaseOnlyDuplicate ==
    /\ call.op = "register_provider"
    /\ ret.exc = "ValueError"
    /\ \E i \in 1..Len(pre) :
          /\ pre[i].name = lower(call.provider_class.NAME)
          /\ pre[i].cls.NAME # call.provider_class.NAME
          /\ pre[i].cls.id # call.provider_class.id
    /\ Len(registry) = 2

\* C2: right after a successful register_provider(X), get_provider(n) returns
\* X for every n equal to X.NAME up to letter case; every call other than
\* clear_registration keeps each such answer; and a get_provider call made
\* with any spelling of a registered name returns the registered class.
C2_LookupIgnoresCase ==
    /\ (call.op = "register_provider" /\ ret.exc = "none")
         => \A n \in Names :
               lower(n) = lower(call.provider_class.NAME)
               => get_provider(registry, n) = Return(call.provider_class)
    /\ (call.op \in {"register_provider", "get_provider", "get_providers"})
         => \A n \in Names : \A i \in 1..Len(pre) :
               lower(n) = lower(pre[i].cls.NAME)
               => get_provider(registry, n) = Return(pre[i].cls)
    /\ (call.op = "get_provider")
         => \A i \in 1..Len(pre) :
               lower(call.provider_name) = lower(pre[i].cls.NAME)
               => ret = Return(pre[i].cls)

C2_Witness_OtherCaseLookup ==
    /\ call.op = "get_provider"
    /\ ret.exc = "none"
    /\ ret.value.NAME # call.provider_name
    /\ Len(registry) = 2
    /\ registry[1].cls = ret.value

\* C3: after clear_registration(), get_providers() is empty, get_provider
\* raises KeyError for every name, and every provider that was registered
\* before the call registers again without ValueError.
C3_ClearEmptiesRegistry ==
    /\ (call.op = "clear_registration")
         => /\ get_providers(registry) = <<>>
            /\ \A n \in Names : get_provider(registry, n).exc = "KeyError"
            /\ \A i \in 1..Len(pre) :
                  register_provider(registry, pre[i].cls).ret.exc = "none"
    /\ (call.op = "register_provider" /\ pre = clear_registration(pre))
         => ret.exc = "none"

C3_Witness_ClearedNonEmpty ==
    /\ call.op = "clear_registration"
    /\ Len(pre) = 2
    /\ registry = EmptyRegistry

(***************************************************************************)
(* crud/user.py: create_user_in_db and the "Everyone" group.               *)
(***************************************************************************)
MaxUsers == 3

Usernames == {"alice", "bob"}

\* schemas.UserCreate, cut down to two of its attributes.
UserCreates == [username : Usernames, is_admin : BOOLEAN]

\* What db.query(Group).filter(Group.name == name).first() may return: None
\* when no row matches, any matching row otherwise (the query has no order).
get_group_by_name_from_db(d, name) ==
    LET rows == {g \in d.Group : g.name = name}
    IN IF rows = {} THEN {NoRow} ELSE rows

\* Adds a Group row and commits.  When the schema declares Group.name unique
\* the commit of a second row of the same name raises.
create_group_in_db(d, new_group) ==
    IF d.group_name_unique /\ \E g \in d.Group : g.name = new_group.name
    THEN [db |-> d, ret |-> Raise("IntegrityError", None)]
    ELSE LET row == [id |-> d.seq.Group + 1, name |-> new_group.name,
                     description |-> new_group.description]
         IN [db |-> [d EXCEPT !.Group = @ \cup {row}, !.seq.Group = @ + 1],
             ret |-> Return(row)]

GroupCreate(name) == [name |-> name, description |-> None]

\* user.py lines 113-114, given the result of the lookup of line 112.
ensure_everyone_group_always(d, everyone_group) ==
    create_group_in_db(d, GroupCreate("Everyone"))

ensure_everyone_group(d, everyone_group) ==
    IF everyone_group = NoRow
    THEN create_group_in_db(d, GroupCreate("Everyone"))
    ELSE [db |-> d, ret |-> Return(everyone_group)]

\* user.py lines 97-109 and 115-120: the User row with its group list is
\* added, committed and refreshed.
commit_user(d, new_user, groups) ==
    LET row == [id |-> d.seq.User + 1, username |-> new_user.username,
                is_admin |-> new_user.is_admin]
    IN [db |-> [d EXCEPT !.User = @ \cup {row},
                         !.user_group = @ \cup {[user_id |-> row.id, group_id |-> g.id] :
                                                  g \in groups},
                         !.seq.User = @ + 1],
        ret |-> Return(row)]

\* The whole of create_user_in_db run without interruption; everyone_group is
\* what the lookup of line 112 returned.
create_user_in_db(d, new_user, everyone_group) ==
    LET g == ensure_everyone_group(d, everyone_group)
    IN IF g.ret.exc # "none"
       THEN g
       ELSE commit_user(g.db, new_user, {g.ret.value})

\* Group tables a database may start with: no "Everyone" row or one.
SeedGroups ==
    {<<>>, <<"Everyone">>, <<"analysts">>, <<"analysts", "Everyone">>,
     <<"Everyone", "analysts">>}

SeedDb(names, unique) ==
    [EmptyDb EXCEPT
        !.Group = {[id |-> i, name |-> names[i], description |-> "seed"] :
                     i \in 1..Len(names)},
        !.seq.Group = Len(names),
        !.group_name_unique = unique]

InitUser ==
    /\ registry = EmptyRegistry
    /\ \E names \in SeedGroups : \E unique \in BOOLEAN : db = SeedDb(names, unique)
    /\ procs = NoProcs
    /\ pre = db
    /\ call = NoCall
    /\ ret = NoRet

CreateUser ==
    /\ db.seq.User < MaxUsers
    /\ \E new_user \in UserCreates :
       \E everyone_group \in get_group_by_name_from_db(db, "Everyone") :
          LET r == create_user_in_db(db, new_user, everyone_group)
          IN /\ db' = r.db
             /\ pre' = db
             /\ call' = [op |-> "create_user_in_db", new_user |-> new_user]
             /\ ret' = r.ret
             /\ UNCHANGED <<registry, procs>>

GetUsers ==
    /\ pre' = db
    /\ call' = [op |-> "get_users_from_db"]
    /\ ret' = Return(db.User)
    /\ UNCHANGED <<registry, db, procs>>

NextUser ==
    \/ CreateUser
    \/ GetUsers

SpecUser == InitUser /\ [][NextUser]_vars

EveryoneGroups(d) == {g \in d.Group : g.name = "Everyone"}

IsMember(d, user_id, group_id) ==
    [user_id |-> user_id, group_id |-> group_id] \in d.user_group

\* C4: once create_user_in_db calls have run one after another on a database
\* that started with zero or one "Everyone" group, there is exactly one
\* "Everyone" row, every user is a member of it, each call returned the user
\* it created, and an "Everyone" row present before a call is the one reused.
C4_OneEveryoneGroup ==
    (call.op = "create_user_in_db")
    => /\ Cardinality(EveryoneGroups(db)) = 1
       /\ \A u \in db.User : \A g \in EveryoneGroups(db) : IsMember(db, u.id, g.id)
       /\ ret.exc = "none"
       /\ ret.value \in db.User
       /\ ret.value \notin pre.User
       /\ EveryoneGroups(pre) \subseteq EveryoneGroups(db)

C4_Witness_TwoUsersLazyGroup ==
    /\ call.op = "create_user_in_db"
    /\ Cardinality(db.User) = 2
    /\ \E g \in EveryoneGroups(db) :
          /\ g.description = None
          /\ \A u \in db.User : IsMember(db, u.id, g.id)

(***************************************************************************)
(* create_user_in_db run by concurrent requests, each with a session of    *)
(* its own: the lookup, the conditional creation of the group, the append  *)
(* and the commit are separate steps.                                      *)
(***************************************************************************)
NumProcs == 2

Procs == 1..NumProcs

IdleProc == [pc |-> "lookup", new_user |-> NoRow, everyone_group |-> NoRow,
             groups |-> {}, result |-> NoRet]

InitUserConc ==
    /\ registry = EmptyRegistry
    /\ \E names \in SeedGroups : \E unique \in BOOLEAN : db = SeedDb(names, unique)
    /\ procs = [p \in Procs |-> IdleProc]
    /\ pre = db
    /\ call = NoCall
    /\ ret = NoRet

\* line 112
Lookup(p) ==
    /\ procs[p].pc = "lookup"
    /\ \E new_user \in UserCreates :
       \E everyone_group \in get_group_by_name_from_db(db, "Everyone") :
          procs' = [procs EXCEPT ![p] = [@ EXCEPT !.pc = "ensure",
                                                  !.new_user = new_user,
                                                  !.everyone_group = everyone_group]]
    /\ UNCHANGED <<registry, db, pre, call, ret>>

\* lines 113-114
EnsureGroup(p) ==
    /\ procs[p].pc = "ensure"
    /\ LET g == ensure_everyone_group(db, procs[p].everyone_group)
       IN /\ db' = g.db
          /\ procs' = [procs EXCEPT ![p] =
                         IF g.ret.exc = "none"
                         THEN [@ EXCEPT !.pc = "append", !.everyone_group = g.ret.value]
                         ELSE [@ EXCEPT !.pc = "raised", !.result = g.ret]]
    /\ UNCHANGED <<registry, pre, call, ret>>

\* line 115
AppendGroup(p) ==
    /\ procs[p].pc = "append"
    /\ procs' = [procs EXCEPT ![p] = [@ EXCEPT !.pc = "commit",
                                               !.groups = @ \cup {procs[p].everyone_group}]]
    /\ UNCHANGED <<registry, db, pre, call, ret>>

\* lines 117-120
CommitUser(p) ==
    /\ procs[p].pc = "commit"
    /\ LET r == commit_user(db, procs[p].new_user, procs[p].groups)
       IN /\ db' = r.db
          /\ procs' = [procs EXCEPT ![p] = [@ EXCEPT !.pc = "done", !.result = r.ret]]
    /\ UNCHANGED <<registry, pre, call, ret>>

NextUserConc ==
    \E p \in Procs :
        \/ Lookup(p)
        \/ EnsureGroup(p)
        \/ AppendGroup(p)
        \/ CommitUser(p)

SpecUserConc == InitUserConc /\ [][NextUserConc]_vars

AllReturned == \A p \in Procs : procs[p].pc \in {"done", "raised"}

\* C9: when concurrent create_user_in_db calls on a database without an
\* "Everyone" group have all returned, there is exactly one "Everyone" row
\* and every call created a user that is a member of it.
C9_ConcurrentFirstUse ==
    (AllReturned /\ EveryoneGroups(pre) = {})
    => /\ Cardinality(EveryoneGroups(db)) = 1
       /\ \A p \in Procs :
            /\ procs[p].pc = "done"
            /\ procs[p].result.value \in db.User
            /\ \A g \in EveryoneGroups(db) : IsMember(db, procs[p].result.value.id, g.id)

(***************************************************************************)
(* crud/user.py: API keys.                                                 *)
(***************************************************************************)
NumUsers == 2

MaxApiKeys == 3

UserIds == 1..NumUsers

\* The User rows the API-key and role functions are called for.
SeedUsers == {[id |-> i, username |-> "alice", is_admin |-> FALSE] : i \in UserIds}

TokenJtis == {"jti-1", "jti-2"}

\* schemas.UserApiKeyCreate, cut down to the token identifier and the owner.
UserApiKeyCreates == [token_jti : TokenJtis, user_id : UserIds]

get_user_api_keys_from_db(d, current_user) ==
    {k \in d.UserApiKey : k.user_id = current_user.id}

create_user_api_key_in_db(d, apikey) ==
    LET new_apikey == [id |-> d.seq.UserApiKey + 1, token_jti |-> apikey.token_jti,
                       user_id |-> apikey.user_id]
    IN [db |-> [d EXCEPT !.UserApiKey = @ \cup {new_apikey}, !.seq.UserApiKey = @ + 1],
        ret |-> Return(new_apikey)]

delete_user_api_key_from_db_any_owner(d, apikey_id, current_user) ==
    LET found == {k \in d.UserApiKey : k.id = apikey_id}
    IN [db |-> [d EXCEPT !.UserApiKey = @ \ found], ret |-> Return(None)]

\* id is the primary key, so the query matches at most one row and
\* first() is that row or None.
delete_user_api_key_from_db(d, apikey_id, current_user) ==
    LET found == {k \in d.UserApiKey :
                    k.id = apikey_id /\ k.user_id = current_user.id}
    IN IF found # {}
       THEN [db |-> [d EXCEPT !.UserApiKey = @ \ found], ret |-> Return(None)]
       ELSE [db |-> d, ret |-> Return(None)]

InitApiKey ==
    /\ registry = EmptyRegistry
    /\ db = [EmptyDb EXCEPT !.User = SeedUsers, !.seq.User = NumUsers]
    /\ procs = NoProcs
    /\ pre = db
    /\ call = NoCall
    /\ ret = NoRet

CreateUserApiKey ==
    /\ db.seq.UserApiKey < MaxApiKeys
    /\ \E apikey \in UserApiKeyCreates :
          LET r == create_user_api_key_in_db(db, apikey)
          IN /\ db' = r.db
             /\ pre' = db
             /\ call' = [op |-> "create_user_api_key_in_db", apikey |-> apikey]
             /\ ret' = r.ret
             /\ UNCHANGED <<registry, procs>>

\* apikey_id ranges over every id handed out so far and one never handed out.
DeleteUserApiKey ==
    \E apikey_id \in 1..(MaxApiKeys + 1) : \E current_user \in db.User :
        LET r == delete_user_api_key_from_db(db, apikey_id, current_user)
        IN /\ db' = r.db
           /\ pre' = db
           /\ call' = [op |-> "delete_user_api_key_from_db", apikey_id |-> apikey_id,
                       current_user |-> current_user]
           /\ ret' = r.ret
           /\ UNCHANGED <<registry, procs>>

GetUserApiKeys ==
    \E current_user \in db.User :
        /\ pre' = db
        /\ call' = [op |-> "get_user_api_keys_from_db", current_user |-> current_user]
        /\ ret' = Return(get_user_api_keys_from_db(db, current_user))
        /\ UNCHANGED <<registry, db, procs>>

NextApiKey ==
    \/ CreateUserApiKey
    \/ DeleteUserApiKey
    \/ GetUserApiKeys

SpecApiKey == InitApiKey /\ [][NextApiKey]_vars

\* C5: delete_user_api_key_from_db(apikey_id, current_user) removes exactly
\* the keys that have that id and are owned by current_user; when there is no
\* such key (the id is unknown or the key is another user's) the UserApiKey
\* table is unchanged; no key of another user is ever removed or altered.
C5_DeleteOwnKeyOnly ==
    (call.op = "delete_user_api_key_from_db")
    => LET own == {k \in pre.UserApiKey :
                     k.id = call.apikey_id /\ k.user_id = call.current_user.id}
       IN /\ db.UserApiKey = pre.UserApiKey \ own
          /\ (own = {} => db.UserApiKey = pre.UserApiKey)
          /\ \A u \in pre.User :
                u.id # call.current_user.id
                => get_user_api_keys_from_db(db, u) = get_user_api_keys_from_db(pre, u)
          /\ ret.exc = "none"
          /\ Cardinality(own) <= 1

C5_Witness_ForeignKeyKept ==
    /\ call.op = "delete_user_api_key_from_db"
    /\ \E k \in pre.UserApiKey :
          /\ k.id = call.apikey_id
          /\ k.user_id # call.current_user.id
          /\ k \in db.UserApiKey
    /\ get_user_api_keys_from_db(db, call.current_user) # {}

(***************************************************************************)
(* crud/user.py: user roles.                                               *)
(***************************************************************************)
MaxUserRoles == 2

NumFolders == 2

FolderIds == 1..NumFolders

\* SQL NULL in an integer column (identifiers start at 1).
NULL == 0

Roles == {"viewer", "editor"}

\* Targets of a role: a folder (file_id NULL) or a file (folder_id NULL).
RoleTargets ==
    {[folder_id |-> f, file_id |-> NULL] : f \in FolderIds}
        \cup {[folder_id |-> NULL, file_id |-> 1]}

user_role_exists_any_role(d, user_id, folder_id, role) ==
    {r \in d.UserRole : r.user_id = user_id /\ r.folder_id = folder_id} # {}

user_role_exists(d, user_id, folder_id, role) ==
    {r \in d.UserRole :
        r.user_id = user_id /\ r.folder_id = folder_id /\ r.role = role} # {}

create_user_role_in_db(d, role, user_id, folder_id, file_id) ==
    LET user_role == [id |-> d.seq.UserRole + 1, role |-> role, user_id |-> user_id,
                      folder_id |-> folder_id, file_id |-> file_id]
    IN [db |-> [d EXCEPT !.UserRole = @ \cup {user_role}, !.seq.UserRole = @ + 1],
        ret |-> Return(user_role)]

\* db.delete(None) raises UnmappedInstanceError before anything is changed.
delete_user_role_from_db(d, user_role_id) ==
    LET found == {r \in d.UserRole : r.id = user_role_id}
    IN IF found = {}
       THEN [db |-> d, ret |-> Raise("UnmappedInstanceError", None)]
       ELSE [db |-> [d EXCEPT !.UserRole = @ \ found], ret |-> Return(None)]

InitRole ==
    /\ registry = EmptyRegistry
    /\ db = [EmptyDb EXCEPT !.User = SeedUsers, !.seq.User = NumUsers]
    /\ procs = NoProcs
    /\ pre = db
    /\ call = NoCall
    /\ ret = NoRet

UserRoleExists ==
    \E user_id \in UserIds : \E folder_id \in FolderIds : \E role \in Roles :
        /\ pre' = db
        /\ call' = [op |-> "user_role_exists", user_id |-> user_id,
                    folder_id |-> folder_id, role |-> role]
        /\ ret' = Return(user_role_exists(db, user_id, folder_id, role))
        /\ UNCHANGED <<registry, db, procs>>

CreateUserRole ==
    /\ db.seq.UserRole < MaxUserRoles
    /\ \E role \in Roles : \E user_id \in UserIds : \E t \in RoleTargets :
          LET r == create_user_role_in_db(db, role, user_id, t.folder_id, t.file_id)
          IN /\ db' = r.db
             /\ pre' = db
             /\ call' = [op |-> "create_user_role_in_db", role |-> role,
                         user_id |-> user_id, folder_id |-> t.folder_id,
                         file_id |-> t.file_id]
             /\ ret' = r.ret
             /\ UNCHANGED <<registry, procs>>

DeleteUserRole ==
    \E user_role_id \in 1..(MaxUserRoles + 1) :
        LET r == delete_user_role_from_db(db, user_role_id)
        IN /\ db' = r.db
           /\ pre' = db
           /\ call' = [op |-> "delete_user_role_from_db", user_role_id |-> user_role_id]
           /\ ret' = r.ret
           /\ UNCHANGED <<registry, procs>>

NextRole ==
    \/ UserRoleExists
    \/ CreateUserRole
    \/ DeleteUserRole

SpecRole == InitRole /\ [][NextRole]_vars

RoleTriples == [user_id : UserIds, folder_id : FolderIds, role : Roles]

Exists(d, t) == user_role_exists(d, t.user_id, t.folder_id, t.role)

HasRow(d, t) ==
    \E r \in d.UserRole :
        r.user_id = t.user_id /\ r.folder_id = t.folder_id /\ r.role = t.role

CallTriple == [user_id |-> call.user_id, folder_id |-> call.folder_id, role |-> call.role]

\* C7: user_role_exists(u, f, r) is false before any UserRole row is created
\* and stays false through every call that is not create_user_role_in_db for
\* (r, u, f); it is true right after that create and stays true through every
\* call but a delete of a row of that triple; a create changes the answer for
\* no other triple; and a user_role_exists call returns that answer and
\* changes nothing.
C7_RoleExistsTracksCreate ==
    /\ (call.op = "init") => \A t \in RoleTriples : ~Exists(db, t)
    /\ (call.op = "create_user_role_in_db")
         => \A t \in RoleTriples :
               IF t.user_id = call.user_id /\ t.folder_id = call.folder_id
                    /\ t.role = call.role
               THEN Exists(db, t)
               ELSE Exists(db, t) = Exists(pre, t)
    /\ (call.op = "delete_user_role_from_db")
         => \A t \in RoleTriples :
               /\ ~Exists(pre, t) => ~Exists(db, t)
               /\ (Exists(pre, t)
                     /\ ~\E r \in pre.UserRole :
                            r.id = call.user_role_id /\ r.user_id = t.user_id
                              /\ r.folder_id = t.folder_id /\ r.role = t.role)
                    => Exists(db, t)
    /\ (call.op = "user_role_exists")
         => /\ db = pre
            /\ ret.value = HasRow(pre, CallTriple)

C7_Witness_TrueAfterCreate ==
    /\ call.op = "user_role_exists"
    /\ ret.value = TRUE
    /\ call.role = "viewer"
    /\ ~Exists(db, [CallTriple EXCEPT !.role = "editor"])
    /\ Cardinality(db.UserRole) = 2

(***************************************************************************)
(* crud/file.py.                                                           *)
(***************************************************************************)
MaxFiles == 4

SeedFolders == {[id |-> f, path |-> <<"folder", f>>] : f \in FolderIds}

\* Point lookup of a Folder: the row or None.
get_folder_from_db(d, folder_id) ==
    IF \E f \in d.Folder : f.id = folder_id
    THEN CHOOSE f \in d.Folder : f.id = folder_id
    ELSE NoRow

\* The file dicts create_file_in_db is called with; folder NumFolders + 1
\* does not exist.
FileDicts ==
    [folder_id : 1..(NumFolders + 1),
     name : {[uuid |-> "u1", extension |-> None, data_type |-> None],
             [uuid |-> "u1", extension |-> "txt", data_type |-> "text/csv"],
             [uuid |-> "u2", extension |-> None, data_type |-> None]}]

\* lines 48-51: {uuid} or {uuid}.{extension}
filename(file) ==
    IF file.name.extension # None
    THEN <<file.name.uuid, ".", file.name.extension>>
    ELSE <<file.name.uuid>>

\* os.path.join(folder.path, filename)
path_join(folder_path, name) == <<folder_path, name>>

\* The files on disk: in every folder u1 and u1.txt, never u2.
SeedDisk ==
    {path_join(f.path, n) : f \in SeedFolders, n \in {<<"u1">>, <<"u1", ".", "txt">>}}

create_file_in_db(d, file) ==
    LET folder == get_folder_from_db(d, file.folder_id)
    IN IF folder = NoRow
       THEN [db |-> d, ret |-> Raise("AttributeError", None)]
       ELSE LET output_file == path_join(folder.path, filename(file))
            IN IF output_file \notin d.disk
               THEN [db |-> d, ret |-> Raise("FileNotFoundError", None)]
               ELSE LET db_file ==
                          [id |-> d.seq.File + 1,
                           folder_id |-> file.folder_id,
                           uuid |-> file.name.uuid,
                           extension |-> file.name.extension,
                           data_type |-> IF file.name.data_type = None
                                         THEN "file:generic"
                                         ELSE file.name.data_type,
                           task_input_id |-> NULL,
                           task_output_id |-> NULL]
                    IN [db |-> [d EXCEPT !.File = @ \cup {db_file}, !.seq.File = @ + 1],
                        ret |-> Return(db_file)]

RECURSIVE order_by_id_desc(_)
\* ORDER BY id DESC over a set of rows with distinct ids.
order_by_id_desc(rows) ==
    IF rows = {}
    THEN <<>>
    ELSE LET top == CHOOSE r \in rows : \A o \in rows : o.id <= r.id
         IN <<top>> \o order_by_id_desc(rows \ {top})

RECURSIVE order_by_id_asc(_)
\* ORDER BY id ASC.
order_by_id_asc(rows) ==
    IF rows = {}
    THEN <<>>
    ELSE LET low == CHOOSE r \in rows : \A o \in rows : r.id <= o.id
         IN <<low>> \o order_by_id_asc(rows \ {low})

get_files_from_db_asc(d, folder_id) ==
    order_by_id_asc({f \in d.File : f.folder_id = folder_id})

get_files_from_db(d, folder_id) ==
    order_by_id_desc({f \in d.File : f.folder_id = folder_id})

\* db.get(File, file_id): the row or None.
get_file_from_db(d, file_id) ==
    IF \E f \in d.File : f.id = file_id
    THEN CHOOSE f \in d.File : f.id = file_id
    ELSE NoRow

delete_file_from_db_if_found(d, file_id) ==
    LET file == get_file_from_db(d, file_id)
    IN IF file = NoRow
       THEN [db |-> d, ret |-> Return(None)]
       ELSE [db |-> [d EXCEPT !.File = @ \ {file}], ret |-> Return(None)]

\* db.delete(None) raises UnmappedInstanceError; nothing was changed and the
\* commit is not reached.
delete_file_from_db(d, file_id) ==
    LET file == get_file_from_db(d, file_id)
    IN IF file = NoRow
       THEN [db |-> d, ret |-> Raise("UnmappedInstanceError", None)]
       ELSE [db |-> [d EXCEPT !.File = @ \ {file}], ret |-> Return(None)]

InitFile ==
    /\ registry = EmptyRegistry
    /\ db = [EmptyDb EXCEPT !.Folder = SeedFolders, !.disk = SeedDisk]
    /\ procs = NoProcs
    /\ pre = db
    /\ call = NoCall
    /\ ret = NoRet

CreateFile ==
    /\ db.seq.File < MaxFiles
    /\ \E file \in FileDicts :
          LET r == create_file_in_db(db, file)
          IN /\ db' = r.db
             /\ pre' = db
             /\ call' = [op |-> "create_file_in_db", file |-> file]
             /\ ret' = r.ret
             /\ UNCHANGED <<registry, procs>>

GetFiles ==
    \E folder_id \in 1..(NumFolders + 1) :
        /\ pre' = db
        /\ call' = [op |-> "get_files_from_db", folder_id |-> folder_id]
        /\ ret' = Return(get_files_from_db(db, folder_id))
        /\ UNCHANGED <<registry, db, procs>>

GetFile ==
    \E file_id \in 1..(MaxFiles + 1) :
        /\ pre' = db
        /\ call' = [op |-> "get_file_from_db", file_id |-> file_id]
        /\ ret' = Return(get_file_from_db(db, file_id))
        /\ UNCHANGED <<registry, db, procs>>

\* file_id ranges over every id handed out so far and one never handed out.
DeleteFile ==
    \E file_id \in 1..(MaxFiles + 1) :
        LET r == delete_file_from_db(db, file_id)
        IN /\ db' = r.db
           /\ pre' = db
           /\ call' = [op |-> "delete_file_from_db", file_id |-> file_id]
           /\ ret' = r.ret
           /\ UNCHANGED <<registry, procs>>

NextFile ==
    \/ CreateFile
    \/ GetFiles
    \/ GetFile
    \/ DeleteFile

SpecFile == InitFile /\ [][NextFile]_vars

Range(seq) == {seq[i] : i \in 1..Len(seq)}

\* C8: get_files_from_db(folder_id) returns exactly the File rows of that
\* folder, each once, in strictly descending id order; and create_file_in_db
\* gives a new file an id above every id handed out before, so files created
\* in the order A, B, C are listed C, B, A.
C8_ListingNewestFirst ==
    /\ (call.op = "get_files_from_db")
         => /\ Range(ret.value) = {f \in pre.File : f.folder_id = call.folder_id}
            /\ Len(ret.value) = Cardinality({f \in pre.File : f.folder_id = call.folder_id})
            /\ \A i \in 1..Len(ret.value) : \A j \in 1..Len(ret.value) :
                  i < j => ret.value[i].id > ret.value[j].id
            /\ db = pre
    /\ (call.op = "create_file_in_db" /\ ret.exc = "none")
         => /\ ret.value.id > pre.seq.File
            /\ \A f \in pre.File : f.id <= pre.seq.File
            /\ db.File = pre.File \cup {ret.value}

C8_Witness_ThreeListed ==
    /\ call.op = "get_files_from_db"
    /\ Len(ret.value) = 3
    /\ Cardinality(db.File) = 4
    /\ ret.value[1].id = 4
    /\ ret.value[2].id = 3
    /\ ret.value[3].id = 1

\* C10 as stated: delete_file_from_db with an id no File row has raises
\* nothing and changes no File row; with the id of a row it removes exactly
\* that row.
C10_SilentNoOp ==
    (call.op = "delete_file_from_db")
    => LET hit == {f \in pre.File : f.id = call.file_id}
       IN /\ ret.exc = "none"
          /\ db.File = pre.File \ hit

\* C10, amended: delete_file_from_db with an id no File row has raises
\* UnmappedInstanceError (from db.delete(None)) and changes nothing; with the
\* id of a row it raises nothing and removes exactly that row.
C10_DeleteMissingRaises ==
    (call.op = "delete_file_from_db")
    => LET hit == {f \in pre.File : f.id = call.file_id}
       IN /\ hit = {} => (ret.exc = "UnmappedInstanceError" /\ db = pre)
          /\ hit # {} => (ret.exc = "none" /\ Cardinality(hit) = 1
                            /\ db.File = pre.File \ hit
                            /\ db = [pre EXCEPT !.File = db.File])

C10_Witness_DeleteMissing ==
    /\ call.op = "delete_file_from_db"
    /\ ret.exc = "UnmappedInstanceError"
    /\ db.File # {}
    /\ call.file_id <= db.seq.File

(***************************************************************************)
(* models/workflow.py: the relationships of Workflow and Task, and what    *)
(* deleting a Workflow through the ORM session does with them.             *)
(***************************************************************************)
NumWorkflows == 2

NumTasks == 2

NumTaskFiles == 1

\* cascade="all" and the cascade of a relationship() that names none.
CascadeAll == {"save-update", "merge", "refresh-expire", "expunge", "delete"}

CascadeDefault == {"save-update", "merge"}

\* Workflow.files: many-to-many through file_workflow_association_table.
Workflow_files == [secondary |-> "file_workflow", cascade |-> CascadeDefault]

Workflow_tasks_no_cascade == [cascade |-> CascadeDefault, order_by |-> "Task.id.asc()"]

\* Workflow.tasks
Workflow_tasks ==
    [cascade |-> CascadeAll \cup {"delete-orphan"}, order_by |-> "Task.id.asc()"]

\* Task.input_files
Task_input_files == [foreign_keys |-> "task_input_id", cascade |-> CascadeDefault]

\* Task.output_files
Task_output_files == [foreign_keys |-> "task_output_id", cascade |-> CascadeDefault]

\* The session deleting a set of Task rows: the File rows of a relationship
\* go with them when it cascades deletes, and otherwise keep their row with
\* the foreign key set to NULL.
session_delete_tasks(d, task_ids) ==
    LET goes(f) ==
            \/ ("delete" \in Task_input_files.cascade /\ f.task_input_id \in task_ids)
            \/ ("delete" \in Task_output_files.cascade /\ f.task_output_id \in task_ids)
        detach(f) ==
            [f EXCEPT !.task_input_id = IF @ \in task_ids THEN NULL ELSE @,
                      !.task_output_id = IF @ \in task_ids THEN NULL ELSE @]
    IN [d EXCEPT !.Task = {t \in @ : t.id \notin task_ids},
                 !.File = {detach(f) : f \in {g \in @ : ~goes(g)}}]

\* db.delete(workflow); db.commit() for an existing Workflow.  Without the
\* delete cascade the session would set Task.workflow_id to NULL, which the
\* column (Mapped[int]) refuses.
delete_workflow_from_db(d, workflow_id) ==
    LET task_ids == {t.id : t \in {u \in d.Task : u.workflow_id = workflow_id}}
    IN IF "delete" \notin Workflow_tasks.cascade /\ task_ids # {}
       THEN [db |-> d, ret |-> Raise("IntegrityError", None)]
       ELSE LET d1 == session_delete_tasks(d, task_ids)
            IN [db |-> [d1 EXCEPT
                          !.Workflow = {w \in @ : w.id # workflow_id},
                          !.file_workflow = {a \in @ : a.workflow_id # workflow_id}],
                ret |-> Return(None)]

\* Workflow.tasks of one Workflow, in its order_by.
workflow_tasks(d, workflow_id) ==
    order_by_id_asc({t \in d.Task : t.workflow_id = workflow_id})

WorkflowDb(task_wf, file_in, file_out) ==
    [EmptyDb EXCEPT
        !.User = SeedUsers,
        !.Workflow = {[id |-> w, user_id |-> 1] : w \in 1..NumWorkflows},
        !.Task = {[id |-> t, user_id |-> 1, workflow_id |-> task_wf[t]] :
                    t \in 1..NumTasks},
        !.File = {[id |-> f, folder_id |-> 1, uuid |-> "u1", extension |-> None,
                   data_type |-> "file:generic", task_input_id |-> file_in[f],
                   task_output_id |-> file_out[f]] : f \in 1..NumTaskFiles},
        !.file_workflow = {[file_id |-> f, workflow_id |-> ((f - 1) % NumWorkflows) + 1] :
                             f \in 1..NumTaskFiles},
        !.seq = [EmptySeq EXCEPT !.User = NumUsers, !.Workflow = NumWorkflows,
                                 !.Task = NumTasks, !.File = NumTaskFiles]]

\* Every Task belongs to one Workflow; a File is the input of no Task or of
\* one, and the output of no Task or of one.
InitWorkflow ==
    /\ registry = EmptyRegistry
    /\ \E task_wf \in [1..NumTasks -> 1..NumWorkflows] :
       \E file_in \in [1..NumTaskFiles -> 0..NumTasks] :
       \E file_out \in [1..NumTaskFiles -> 0..NumTasks] :
          db = WorkflowDb(task_wf, file_in, file_out)
    /\ procs = NoProcs
    /\ pre = db
    /\ call = NoCall
    /\ ret = NoRet

DeleteWorkflow ==
    \E w \in db.Workflow :
        LET r == delete_workflow_from_db(db, w.id)
        IN /\ db' = r.db
           /\ pre' = db
           /\ call' = [op |-> "delete_workflow_from_db", workflow_id |-> w.id]
           /\ ret' = r.ret
           /\ UNCHANGED <<registry, procs>>

GetWorkflowTasks ==
    \E w \in db.Workflow :
        /\ pre' = db
        /\ call' = [op |-> "workflow.tasks", workflow_id |-> w.id]
        /\ ret' = Return(workflow_tasks(db, w.id))
        /\ UNCHANGED <<registry, db, procs>>

NextWorkflow ==
    \/ DeleteWorkflow
    \/ GetWorkflowTasks

SpecWorkflow == InitWorkflow /\ [][NextWorkflow]_vars

TasksOf(d, workflow_id) == {t \in d.Task : t.workflow_id = workflow_id}

\* C6: deleting a Workflow removes the Workflow, every Task whose workflow_id
\* references it and no other Task; every File row is still there afterwards,
\* unchanged but for task_input_id / task_output_id, which are NULL where
\* they referenced a deleted Task and unchanged where they did not.
C6_DeleteCascadesToTasksOnly ==
    (call.op = "delete_workflow_from_db")
    => LET gone == {t.id : t \in TasksOf(pre, call.workflow_id)}
           keep(v) == IF v \in gone THEN NULL ELSE v
       IN /\ ret.exc = "none"
          /\ db.Task = pre.Task \ TasksOf(pre, call.workflow_id)
          /\ db.Workflow = {w \in pre.Workflow : w.id # call.workflow_id}
          /\ db.File = {[f EXCEPT !.task_input_id = keep(f.task_input_id),
                                  !.task_output_id = keep(f.task_output_id)] :
                          f \in pre.File}
          /\ Cardinality(db.File) = Cardinality(pre.File)

C6_Witness_FileOutlivesTask ==
    /\ call.op = "delete_workflow_from_db"
    /\ TasksOf(pre, call.workflow_id) # {}
    /\ db.Task # {}
    /\ \E f \in pre.File : \E g \in db.File :
          /\ g.id = f.id
          /\ f.task_input_id \in {t.id : t \in TasksOf(pre, call.workflow_id)}
          /\ g.task_input_id = NULL
          /\ g.task_output_id # NULL
          /\ g.task_output_id = f.task_output_id

====
